---- MODULE Spec2Model ----
(***************************************************************************)
(* Model of the ENC28J60 + smoltcp demo (examples/smoltcp.rs): start-up,   *)
(* the Phy device adapter with its single packet buffer, the stack's poll  *)
(* as it uses the adapter and the TCP socket, and the poll loop with its   *)
(* one-shot TCP responder on port 80.                                      *)
(***************************************************************************)
EXTENDS Integers, Sequences, FiniteSets, TLC

(* ---------------------------- bounds ---------------------------------- *)
MaxResponses == 2   \* responses after which the peer opens no new connection
MaxPollSteps == 2   \* adapter requests the stack makes within one poll
MaxCycles    == 2   \* value at which the model stops counting clock ticks

(* ------------------------ program constants --------------------------- *)
BufCapacity   == 1024   \* let mut buf = [0u8; 1024]
TxBufCapacity == 2048   \* let mut server_tx_buffer = [0; 2048]
SocketSlots   == 2      \* let mut sockets_storage = [None, None]
ServerPort    == 80     \* socket.listen(80)
server_handle == 1      \* handle returned by sockets.add: first free slot

NoSocket == [state |-> "None", txLen |-> 0, port |-> 0]

TcpStates == {"Closed", "Listen", "SynReceived", "Established", "FinWait1",
              "FinWait2", "CloseWait", "Closing", "LastAck", "TimeWait"}

\* frames the network can deliver to the controller
FrameKinds == {"arp_req", "icmp_echo", "udp", "syn", "ack", "fin", "rst", "bad"}

\* sizes the stack may ask the adapter for
TxSizes == {42, BufCapacity, BufCapacity + 1}

VARIABLES
    pc,          \* position of main: start, enc_init, setup, loop, in_poll, match, panicked
    led,         \* level of PC13: "low" (LED on) or "high" (LED off)
    sockets,     \* the SocketSet storage: slot -> socket or NoSocket
    tokens,      \* tokens outstanding on the packet buffer
    buf,         \* frame the packet buffer holds for a token ("free": none)
    outPending,  \* frames the stack still has to emit
    adLast,      \* the adapter operation just performed and its outcome
    pollSteps,   \* adapter requests made by the current poll
    pollChanged, \* processed_any || emitted_any of the current poll
    pollResult,  \* what the last poll returned
    ops,         \* what the current loop iteration did, in order
    written,     \* the pieces the last write! put into the socket
    encInit,     \* outcome of Enc28j60::new: "pending", "ok" or "failed"
    stage,       \* history: what has happened since the last payload was written
    prevFailed,  \* history: the previous iteration's poll returned an error
    nPayloads,   \* payloads written in the loop
    nToggles,    \* LED toggles performed in the loop
    cyccnt,      \* the free-running cycle counter enabled at start-up, in ticks
    now          \* the timestamp handed to the latest iface.poll, in ms

vars == <<pc, led, sockets, tokens, buf, outPending, adLast, pollSteps,
          pollChanged, pollResult, ops, written, encInit, stage, prevFailed,
          nPayloads, nToggles, cyccnt, now>>

adapterVars == <<tokens, buf, adLast, pollSteps>>
loopVars    == <<led, ops, written, encInit, prevFailed, nPayloads, nToggles>>
timeVars    == <<cyccnt, now>>

(* ------------------------- the TCP socket ----------------------------- *)
\* TcpSocket::is_open
is_open(s) == s.state \notin {"Closed", "TimeWait"}

\* TcpSocket::may_send
may_send(s) == s.state \in {"Established", "CloseWait"}

\* TcpSocket::can_send: may send and the transmit buffer is not full
can_send(s) == may_send(s) /\ s.txLen < TxBufCapacity

\* TcpSocket::listen: fails on port 0 and on an open socket, else resets
\* the socket (buffers emptied) and puts it in Listen
listen(s, port) ==
    IF port = 0 \/ is_open(s)
    THEN [ok |-> FALSE, sock |-> s]
    ELSE [ok |-> TRUE, sock |-> [state |-> "Listen", txLen |-> 0, port |-> port]]

\* TcpSocket::close
close(s) ==
    CASE s.state \in {"Listen", "SynSent"}            -> [s EXCEPT !.state = "Closed"]
      [] s.state \in {"SynReceived", "Established"}   -> [s EXCEPT !.state = "FinWait1"]
      [] s.state = "CloseWait"                        -> [s EXCEPT !.state = "LastAck"]
      [] OTHER                                        -> s

Min(a, b) == IF a < b THEN a ELSE b

\* mutation: send_slice takes at most a 32-byte window of the slice
write_str_SmallWindow(s, piece) ==
    LET free == TxBufCapacity - s.txLen
        sent == Min(Len(piece), Min(free, 32))
    IN  [ok |-> sent = Len(piece), sock |-> [s EXCEPT !.txLen = s.txLen + sent]]

\* fmt::Write::write_str for TcpSocket: send_slice enqueues what fits, and
\* the call fails when not the whole slice was taken
write_str(s, piece) ==
    LET free == TxBufCapacity - s.txLen
        sent == Min(Len(piece), free)
    IN  [ok |-> sent = Len(piece), sock |-> [s EXCEPT !.txLen = s.txLen + sent]]


(* ------------------- what the stack does with a frame ----------------- *)
\* TcpSocket::process: the state reached when a segment arrives.  An ACK
\* may or may not cover everything sent so far (acksAll).
ProcessTcp(s, kind, acksAll) ==
    CASE s.state = "Listen" /\ kind = "syn"       -> [s EXCEPT !.state = "SynReceived"]
      [] s.state = "SynReceived" /\ kind = "ack"  -> [s EXCEPT !.state = "Established"]
      [] s.state = "SynReceived" /\ kind = "rst"  -> [s EXCEPT !.state = "Listen"]
      [] s.state = "Established" /\ kind = "ack"  ->
            IF acksAll THEN [s EXCEPT !.txLen = 0] ELSE s
      [] s.state = "Established" /\ kind = "fin"  -> [s EXCEPT !.state = "CloseWait"]
      [] s.state = "CloseWait" /\ kind = "ack"    ->
            IF acksAll THEN [s EXCEPT !.txLen = 0] ELSE s
      [] s.state = "FinWait1" /\ kind = "ack"     ->
            IF acksAll THEN [s EXCEPT !.state = "FinWait2", !.txLen = 0] ELSE s
      [] s.state = "FinWait1" /\ kind = "fin"     ->
            IF acksAll THEN [s EXCEPT !.state = "TimeWait", !.txLen = 0]
                       ELSE [s EXCEPT !.state = "Closing"]
      [] s.state = "FinWait2" /\ kind = "fin"     -> [s EXCEPT !.state = "TimeWait"]
      [] s.state = "Closing" /\ kind = "ack"      ->
            IF acksAll THEN [s EXCEPT !.state = "TimeWait", !.txLen = 0] ELSE s
      [] s.state = "LastAck" /\ kind = "ack"      ->
            IF acksAll THEN [s EXCEPT !.state = "Closed", !.txLen = 0] ELSE s
      [] s.state \notin {"Closed", "Listen", "SynReceived", "None"} /\ kind = "rst"
                                                  -> [s EXCEPT !.state = "Closed"]
      [] OTHER                                    -> s

\* the kinds of socket registered in the set: only the TCP server socket
SocketKinds == {"tcp"}

\* the frame the stack owes the network after processing one
ReplyTo(kind) ==
    CASE kind = "arp_req"   -> {"arp_reply"}
      [] kind = "icmp_echo" -> {"icmp_echo_reply"}
      [] kind = "udp"       -> IF "udp" \in SocketKinds THEN {"udp"}
                                                        ELSE {"icmp_unreachable"}
      [] kind \in {"syn", "ack", "fin"} -> {"tcp"}
      [] OTHER              -> {}

(* --------------------- history of a connection ------------------------ *)
\* stage: "none" (no payload written yet), then after a payload "written",
\* "closed" (close called), "relistened" (listen called after that close),
\* "accepted" (a connection accepted after that listen)
StageAfter(st, event) ==
    CASE event = "write"                          -> "written"
      [] event = "close"  /\ st = "written"       -> "closed"
      [] event = "listen" /\ st = "closed"        -> "relistened"
      [] event = "accept" /\ st = "relistened"    -> "accepted"
      [] OTHER                                    -> st

RECURSIVE StageAfterAll(_, _)
StageAfterAll(st, events) ==
    IF events = <<>> THEN st
    ELSE StageAfterAll(StageAfter(st, Head(events)), Tail(events))

(* ----------------------- the device adapter --------------------------- *)
\* mutation: receive grants a token without looking at the outstanding ones
ReceiveOutcome_NoExclusivity(toks, failed, pending) ==
    IF failed THEN "error"
    ELSE IF pending = "none" THEN "empty"
    ELSE "rx_token"

\* mutation: receive reports a transport failure as "no frame"
ReceiveOutcome_MasksFailure(toks, failed, pending) ==
    IF toks # <<>> THEN "empty"
    ELSE IF failed \/ pending = "none" THEN "empty"
    ELSE "rx_token"

\* outcome of Phy::receive, given the outstanding tokens, whether the
\* transport failed, and the frame pending in the controller ("none": no frame)
ReceiveOutcome(toks, failed, pending) ==
    IF toks # <<>> THEN "empty"
    ELSE IF failed THEN "error"
    ELSE IF pending = "none" THEN "empty"
    ELSE "rx_token"

\* mutation: transmit grants the buffer whatever the size
TransmitOutcome_NoSizeCheck(toks, size) ==
    IF toks # <<>> THEN "empty" ELSE "tx_token"

\* outcome of Phy::transmit(size)
TransmitOutcome(toks, size) ==
    IF toks # <<>> THEN "empty"
    ELSE IF size > BufCapacity THEN "error"
    ELSE "tx_token"

NoCall == [op |-> "none", size |-> 0, failed |-> FALSE, pending |-> FALSE,
           held |-> FALSE, frame |-> "none", result |-> "none"]

\* the stack aborts the poll with the error it was given
AbortPoll ==
    /\ pc' = "match"
    /\ pollResult' = "err"
    /\ pollSteps' = 0
    /\ pollChanged' = FALSE

\* the frames the network may have delivered by now: any kind, but the peer
\* opens no new connection once MaxResponses responses have been written
Deliverable ==
    {"none"} \cup {k \in FrameKinds : k = "syn" => nPayloads < MaxResponses}

\* device.receive(): the adapter asks the controller, which has a frame
\* pending or not
AdapterReceive ==
    /\ pc = "in_poll"
    /\ pollSteps < MaxPollSteps
    /\ \E failed \in BOOLEAN, pending \in Deliverable :
         LET out == ReceiveOutcome(tokens, failed, pending) IN
         /\ adLast' = [op |-> "receive", size |-> 0, failed |-> failed,
                       pending |-> pending # "none", held |-> tokens # <<>>,
                       frame |-> IF out = "rx_token" THEN pending ELSE "none",
                       result |-> out]
         /\ IF out = "rx_token"
            THEN /\ buf' = pending
                 /\ tokens' = Append(tokens, "rx")
            ELSE UNCHANGED <<buf, tokens>>
         /\ IF out = "error"
            THEN AbortPoll
            ELSE /\ pollSteps' = pollSteps + 1
                 /\ UNCHANGED <<pc, pollResult, pollChanged>>
    /\ UNCHANGED <<sockets, outPending, stage>>
    /\ UNCHANGED loopVars
    /\ UNCHANGED timeVars

\* device.transmit(size)
AdapterTransmit ==
    /\ pc = "in_poll"
    /\ pollSteps < MaxPollSteps
    /\ outPending # {}
    /\ \E size \in TxSizes :
         LET out == TransmitOutcome(tokens, size) IN
         /\ adLast' = [op |-> "transmit", size |-> size, failed |-> FALSE,
                       pending |-> FALSE, held |-> tokens # <<>>,
                       frame |-> "none", result |-> out]
         /\ IF out = "tx_token"
            THEN tokens' = Append(tokens, "tx")
            ELSE UNCHANGED tokens
         /\ IF out = "error"
            THEN AbortPoll
            ELSE /\ pollSteps' = pollSteps + 1
                 /\ UNCHANGED <<pc, pollResult, pollChanged>>
    /\ UNCHANGED <<sockets, buf, outPending, stage>>
    /\ UNCHANGED loopVars
    /\ UNCHANGED timeVars

Remove(seq, i) == SubSeq(seq, 1, i - 1) \o SubSeq(seq, i + 1, Len(seq))

\* RxToken::consume: the stack reads the frame out of the buffer and
\* processes it; a malformed frame makes poll return the error
RxConsume ==
    /\ pc = "in_poll"
    /\ \E i \in 1..Len(tokens) :
         /\ tokens[i] = "rx"
         /\ tokens' = Remove(tokens, i)
    /\ buf' = "free"
    /\ adLast' = [op |-> "consume", size |-> 0, failed |-> FALSE,
                  pending |-> FALSE, held |-> TRUE, frame |-> buf,
                  result |-> IF buf = "bad" THEN "error" ELSE "processed"]
    /\ IF buf = "bad"
       THEN /\ AbortPoll
            /\ UNCHANGED <<sockets, outPending, stage>>
       ELSE /\ \E acksAll \in BOOLEAN :
                 LET s1 == ProcessTcp(sockets[server_handle], buf, acksAll) IN
                 /\ sockets' = [sockets EXCEPT ![server_handle] = s1]
                 /\ stage' = IF sockets[server_handle].state = "Listen"
                                 /\ s1.state = "SynReceived"
                              THEN StageAfter(stage, "accept") ELSE stage
            /\ outPending' = outPending \cup ReplyTo(buf)
            /\ pollChanged' = TRUE
            /\ UNCHANGED <<pc, pollResult, pollSteps>>
    /\ UNCHANGED loopVars
    /\ UNCHANGED timeVars

\* TxToken::consume: the stack writes one owed frame into the buffer and the
\* adapter hands it to the controller, which may fail
TxFlush ==
    /\ pc = "in_poll"
    /\ \E i \in 1..Len(tokens) :
         /\ tokens[i] = "tx"
         /\ tokens' = Remove(tokens, i)
    /\ buf' = "free"
    /\ \E kind \in outPending, failed \in BOOLEAN :
         /\ outPending' = outPending \ {kind}
         /\ adLast' = [op |-> "flush", size |-> 0, failed |-> failed,
                       pending |-> FALSE, held |-> TRUE, frame |-> kind,
                       result |-> IF failed THEN "error" ELSE "sent"]
         /\ IF failed
            THEN AbortPoll
            ELSE /\ pollChanged' = TRUE
                 /\ UNCHANGED <<pc, pollResult, pollSteps>>
    /\ UNCHANGED <<sockets, stage>>
    /\ UNCHANGED loopVars
    /\ UNCHANGED timeVars

(* ----------------------------- the LED -------------------------------- *)
\* led.toggle()
toggle(l) == IF l = "low" THEN "high" ELSE "low"

\* led.is_set_low()
is_set_low(l) == l = "low"

(* ------------------------- the service logic -------------------------- *)
HEADER == "HTTP/1.1 200 OK\r\n\r\nLED is currently: "

\* mutation: the LED level is read the wrong way round
ResponsePieces_Inverted(l) == <<HEADER, IF l = "high" THEN "on" ELSE "off", "\n">>

\* the pieces write! hands to write_str, in order
ResponsePieces(l) == <<HEADER, IF is_set_low(l) THEN "on" ELSE "off", "\n">>

\* fmt::write: write_str for each piece, stopping at the first failure
RECURSIVE write_fmt(_, _)
write_fmt(s, pieces) ==
    IF pieces = <<>> THEN [ok |-> TRUE, sock |-> s, text |-> ""]
    ELSE LET first == write_str(s, Head(pieces)) IN
         IF ~first.ok THEN [ok |-> FALSE, sock |-> first.sock, text |-> ""]
         ELSE [write_fmt(first.sock, Tail(pieces)) EXCEPT
                   !.text = Head(pieces) \o @]

\* mutation: listen is called without the is_open guard
ListenTransition_Unguarded(s) ==
    LET r == listen(s, ServerPort) IN
    [panic |-> ~r.ok, sock |-> r.sock, ops |-> <<"listen">>]

\* mutation: the service never calls listen
ListenTransition_Skip(s) == [panic |-> FALSE, sock |-> s, ops |-> <<>>]

\* mutation: listen is called whenever the socket is not listening
ListenTransition_NotListening(s) ==
    IF s.state # "Listen"
    THEN LET r == listen(s, ServerPort) IN
         [panic |-> ~r.ok, sock |-> r.sock, ops |-> <<"listen">>]
    ELSE [panic |-> FALSE, sock |-> s, ops |-> <<>>]

\* mutation: listen is called for a Closed socket only, not in TimeWait
ListenTransition_ClosedOnly(s) ==
    IF s.state = "Closed"
    THEN LET r == listen(s, ServerPort) IN
         [panic |-> ~r.ok, sock |-> r.sock, ops |-> <<"listen">>]
    ELSE [panic |-> FALSE, sock |-> s, ops |-> <<>>]

\* if !socket.is_open() { socket.listen(80).unwrap(); }
ListenTransition(s) ==
    IF ~is_open(s)
    THEN LET r == listen(s, ServerPort) IN
         [panic |-> ~r.ok, sock |-> r.sock, ops |-> <<"listen">>]
    ELSE [panic |-> FALSE, sock |-> s, ops |-> <<>>]

\* mutation: the response is written but the socket is not closed
Respond_NoClose(s, l) ==
    IF can_send(s)
    THEN LET l1 == toggle(l)
             w  == write_fmt(s, ResponsePieces(l1))
         IN  [panic |-> ~w.ok, sock |-> w.sock, led |-> l1, text |-> w.text,
              ops |-> <<"log_send", "toggle", "write">>,
              payloads |-> IF w.ok THEN 1 ELSE 0, toggles |-> 1]
    ELSE [panic |-> FALSE, sock |-> s, led |-> l, text |-> "", ops |-> <<>>,
          payloads |-> 0, toggles |-> 0]

\* mutation: the LED is toggled before can_send is tested
Respond_ToggleFirst(s, l) ==
    LET l1 == toggle(l) IN
    IF can_send(s)
    THEN LET w == write_fmt(s, ResponsePieces(l1)) IN
         [panic |-> ~w.ok, sock |-> IF w.ok THEN close(w.sock) ELSE w.sock,
          led |-> l1, text |-> w.text,
          ops |-> <<"toggle", "log_send", "write", "log_close", "close">>,
          payloads |-> IF w.ok THEN 1 ELSE 0, toggles |-> 1]
    ELSE [panic |-> FALSE, sock |-> s, led |-> l1, text |-> "",
          ops |-> <<"toggle">>, payloads |-> 0, toggles |-> 1]

\* mutation: the payload is written twice before the close
Respond_WriteTwice(s, l) ==
    IF can_send(s)
    THEN LET l1 == toggle(l)
             w1 == write_fmt(s, ResponsePieces(l1))
             w  == write_fmt(w1.sock, ResponsePieces(l1))
         IN  [panic |-> ~w.ok, sock |-> close(w.sock), led |-> l1,
              text |-> w.text,
              ops |-> <<"log_send", "toggle", "write", "write", "log_close", "close">>,
              payloads |-> 1, toggles |-> 1]
    ELSE [panic |-> FALSE, sock |-> s, led |-> l, text |-> "", ops |-> <<>>,
          payloads |-> 0, toggles |-> 0]

\* if socket.can_send() { log; led.toggle(); write!(...).unwrap(); log; socket.close(); }
Respond(s, l) ==
    IF can_send(s)
    THEN LET l1 == toggle(l)
             w  == write_fmt(s, ResponsePieces(l1))
         IN  IF ~w.ok
             THEN [panic |-> TRUE, sock |-> w.sock, led |-> l1, text |-> w.text,
                   ops |-> <<"log_send", "toggle", "write">>,
                   payloads |-> 0, toggles |-> 1]
             ELSE [panic |-> FALSE, sock |-> close(w.sock), led |-> l1,
                   text |-> w.text,
                   ops |-> <<"log_send", "toggle", "write", "log_close", "close">>,
                   payloads |-> 1, toggles |-> 1]
    ELSE [panic |-> FALSE, sock |-> s, led |-> l, text |-> "", ops |-> <<>>,
          payloads |-> 0, toggles |-> 0]

\* the body of `if b { ... }`
Serve(s, l) ==
    LET t == ListenTransition(s) IN
    IF t.panic
    THEN [panic |-> TRUE, sock |-> t.sock, led |-> l, text |-> "", ops |-> t.ops,
          payloads |-> 0, toggles |-> 0]
    ELSE [Respond(t.sock, l) EXCEPT !.ops = t.ops \o @]

(* ------------------------------ start-up ------------------------------ *)
NewSocket == [state |-> "Closed", txLen |-> 0, port |-> 0]

\* mutation: the socket goes into the last free slot
add_LastSlot(set, s) ==
    LET free == {i \in DOMAIN set : set[i] = NoSocket}
        h    == CHOOSE i \in free : \A j \in free : i >= j
    IN  [set EXCEPT ![h] = s]

\* SocketSet::add: the socket goes into the first free slot
add(set, s) ==
    LET free == {i \in DOMAIN set : set[i] = NoSocket}
        h    == CHOOSE i \in free : \A j \in free : i <= j
    IN  [set EXCEPT ![h] = s]

Init ==
    /\ pc = "start"
    /\ led = "low"
    /\ sockets = [i \in 1..SocketSlots |-> NoSocket]
    /\ tokens = <<>>
    /\ buf = "free"
    /\ outPending = {}
    /\ adLast = NoCall
    /\ pollSteps = 0
    /\ pollChanged = FALSE
    /\ pollResult = "none"
    /\ ops = <<>>
    /\ written = ""
    /\ encInit = "pending"
    /\ stage = "none"
    /\ prevFailed = FALSE
    /\ nPayloads = 0
    /\ nToggles = 0
    /\ cyccnt = 0
    /\ now = 0

\* led.set_high(): the LED is off during initialization
LedOff ==
    /\ pc = "start"
    /\ led' = "high"
    /\ pc' = "enc_init"
    /\ UNCHANGED <<sockets, outPending, pollChanged, pollResult, ops, written,
                   encInit, stage, prevFailed, nPayloads, nToggles>>
    /\ UNCHANGED adapterVars
    /\ UNCHANGED timeVars

\* mutation: the result of Enc28j60::new is not unwrapped
AfterEncNew_NoUnwrap(ok) == "setup"

\* where main continues once Enc28j60::new(...).ok().unwrap() has run
AfterEncNew(ok) == IF ok THEN "setup" ELSE "panicked"

\* Enc28j60::new(...).ok().unwrap()
EncNew ==
    /\ pc = "enc_init"
    /\ \E ok \in BOOLEAN :
         /\ encInit' = IF ok THEN "ok" ELSE "failed"
         /\ pc' = AfterEncNew(ok)
    /\ UNCHANGED <<led, sockets, outPending, pollChanged, pollResult, ops,
                   written, stage, prevFailed, nPayloads, nToggles>>
    /\ UNCHANGED adapterVars
    /\ UNCHANGED timeVars

\* Phy::new, the interface, the socket set with the server socket, LED on
Setup ==
    /\ pc = "setup"
    /\ sockets' = add(sockets, NewSocket)
    /\ led' = "low"
    /\ pc' = "loop"
    /\ UNCHANGED <<outPending, pollChanged, pollResult, ops, written,
                   encInit, stage, prevFailed, nPayloads, nToggles>>
    /\ UNCHANGED adapterVars
    /\ UNCHANGED timeVars

(* ----------------------------- the loop ------------------------------- *)
\* the cycle counter runs freely; every loop iteration takes some ticks
Tick(c) == IF c < MaxCycles THEN c + 1 ELSE c

\* Instant::from_millis
from_millis(ms) == ms

\* iface.poll(&mut sockets, Instant::from_millis(0)) is entered
PollCall ==
    /\ pc = "loop"
    /\ pc' = "in_poll"
    /\ ops' = <<"poll">>
    /\ pollSteps' = 0
    /\ pollChanged' = FALSE
    /\ pollResult' = "none"
    /\ written' = ""
    /\ adLast' = NoCall
    /\ prevFailed' = (pollResult = "err")
    /\ now' = from_millis(0)
    /\ cyccnt' = Tick(cyccnt)
    /\ UNCHANGED <<led, sockets, tokens, buf, outPending, encInit, stage,
                   nPayloads, nToggles>>

\* poll returns Ok(readiness_may_have_changed)
PollReturn ==
    /\ pc = "in_poll"
    /\ tokens = <<>>
    /\ pollResult' = IF pollChanged THEN "ok_true" ELSE "ok_false"
    /\ pc' = "match"
    /\ pollSteps' = 0
    /\ pollChanged' = FALSE
    /\ adLast' = NoCall
    /\ UNCHANGED <<sockets, outPending, tokens, buf, stage>>
    /\ UNCHANGED loopVars
    /\ UNCHANGED timeVars

\* mutation: the service runs whatever poll returned in Ok(b)
MatchOk_IgnoresB ==
    /\ pc = "match"
    /\ pollResult \in {"ok_true", "ok_false"}
    /\ IF pollResult \in {"ok_true", "ok_false"}
       THEN \E r \in {Serve(sockets[server_handle], led)} :
            /\ sockets' = [sockets EXCEPT ![server_handle] = r.sock]
            /\ led' = r.led
            /\ ops' = ops \o r.ops
            /\ written' = r.text
            /\ stage' = StageAfterAll(stage, r.ops)
            /\ nPayloads' = nPayloads + r.payloads
            /\ nToggles' = nToggles + r.toggles
            /\ outPending' = IF r.payloads > 0
                             THEN outPending \cup {"tcp"} ELSE outPending
            /\ pc' = IF r.panic THEN "panicked" ELSE "loop"
       ELSE /\ pc' = "loop"
            /\ UNCHANGED <<sockets, led, ops, written, nPayloads, nToggles,
                           outPending, stage>>
    /\ adLast' = NoCall
    /\ UNCHANGED <<pollChanged, pollResult, encInit, prevFailed, tokens, buf,
                   pollSteps>>
    /\ UNCHANGED timeVars

\* the arm Ok(b)
MatchOk ==
    /\ pc = "match"
    /\ pollResult \in {"ok_true", "ok_false"}
    /\ IF pollResult = "ok_true"
       THEN \E r \in {Serve(sockets[server_handle], led)} :
            /\ sockets' = [sockets EXCEPT ![server_handle] = r.sock]
            /\ led' = r.led
            /\ ops' = ops \o r.ops
            /\ written' = r.text
            /\ stage' = StageAfterAll(stage, r.ops)
            /\ nPayloads' = nPayloads + r.payloads
            /\ nToggles' = nToggles + r.toggles
            /\ outPending' = IF r.payloads > 0
                             THEN outPending \cup {"tcp"} ELSE outPending
            /\ pc' = IF r.panic THEN "panicked" ELSE "loop"
       ELSE /\ pc' = "loop"
            /\ UNCHANGED <<sockets, led, ops, written, nPayloads, nToggles,
                           outPending, stage>>
    /\ adLast' = NoCall
    /\ UNCHANGED <<pollChanged, pollResult, encInit, prevFailed, tokens, buf,
                   pollSteps>>
    /\ UNCHANGED timeVars

\* mutation: the result of poll is unwrapped, so an error ends the program
MatchErr_Unwrap ==
    /\ pc = "match"
    /\ pollResult = "err"
    /\ pc' = "panicked"
    /\ adLast' = NoCall
    /\ UNCHANGED <<led, sockets, outPending, pollChanged, pollResult, written,
                   encInit, stage, prevFailed, nPayloads, nToggles, tokens, buf,
                   pollSteps, ops>>
    /\ UNCHANGED timeVars

\* the arm Err(e): one diagnostic line
MatchErr ==
    /\ pc = "match"
    /\ pollResult = "err"
    /\ ops' = Append(ops, "log_error")
    /\ pc' = "loop"
    /\ adLast' = NoCall
    /\ UNCHANGED <<led, sockets, outPending, pollChanged, pollResult, written,
                   encInit, stage, prevFailed, nPayloads, nToggles, tokens, buf,
                   pollSteps>>
    /\ UNCHANGED timeVars

Next ==
    \/ LedOff
    \/ EncNew
    \/ Setup
    \/ PollCall
    \/ AdapterReceive
    \/ AdapterTransmit
    \/ RxConsume
    \/ TxFlush
    \/ PollReturn
    \/ MatchOk
    \/ MatchErr

Spec == Init /\ [][Next]_vars

\* the processor keeps executing main
LiveSpec == Spec /\ WF_vars(Next)

LoopPcs == {"loop", "in_poll", "match"}

\* sockets.get::<TcpSocket>(server_handle)
server == sockets[server_handle]

TypeOK ==
    /\ pc \in {"start", "enc_init", "setup", "loop", "in_poll", "match", "panicked"}
    /\ led \in {"low", "high"}
    /\ buf \in FrameKinds \cup {"free"}
    /\ pc \in LoopPcs => (server.state \in TcpStates /\ server.port \in {0, ServerPort})
    /\ sockets[SocketSlots] = NoSocket
    /\ pollSteps <= MaxPollSteps
    /\ nPayloads <= MaxResponses
    /\ nToggles = nPayloads
    /\ cyccnt \in 0..MaxCycles
    /\ now \in Nat

(* ============================ properties ============================== *)
Payload(txt) == HEADER \o txt \o "\n"

\* C1: buffer exclusivity.  At most one token is outstanding on the packet
\* buffer in every reachable state, a request made while a token is held is
\* never granted, and no token survives the poll that obtained it.
C1_BufferExclusivity ==
    /\ Len(tokens) <= 1
    /\ (adLast.op \in {"receive", "transmit"} /\ adLast.held)
          => adLast.result \notin {"rx_token", "tx_token"}
    /\ pc # "in_poll" => tokens = <<>>

\* a second request was made while a token was outstanding and was deferred
C1_Witness ==
    /\ tokens # <<>>
    /\ adLast.op \in {"receive", "transmit"}
    /\ adLast.held
    /\ adLast.result = "empty"

\* C10: fatal initialization.  The loop is entered, and poll or any socket
\* operation is performed, only after Enc28j60::new succeeded; a failed
\* initialization leaves main panicked before the loop.
C10_FatalInit ==
    /\ (pc \in LoopPcs \/ pc = "setup" \/ ops # <<>> \/ server # NoSocket)
          => encInit = "ok"
    /\ encInit = "failed" => pc = "panicked"

\* initialization failed and start-up was aborted
C10_Witness == encInit = "failed" /\ pc = "panicked" /\ ops = <<>>

\* C2: one-shot response.  An iteration that finds the socket able to send
\* writes exactly one payload and closes the socket in the same iteration;
\* a payload is only ever written for a connection that has not been
\* answered: since the previous payload there was a close, a listen and a
\* newly accepted connection.
C2_OneShot ==
    [][ /\ (nPayloads' # nPayloads) =>
              /\ nPayloads' = nPayloads + 1
              /\ pc = "match" /\ pollResult = "ok_true" /\ can_send(server)
              /\ stage \in {"none", "accepted"}
              /\ stage' = "closed"
              /\ ~may_send(sockets'[server_handle])
              /\ SubSeq(ops', Len(ops') - 2, Len(ops')) = <<"write", "log_close", "close">>
        /\ (pc = "match" /\ pc' # "match" /\ pollResult = "ok_true" /\ can_send(server))
              => nPayloads' = nPayloads + 1
      ]_vars

\* a second connection has been answered, after close, listen and accept
C2_Witness == nPayloads = 2 /\ stage = "closed" /\ pc = "loop"

\* C4: response content.  The payload written is the fixed header followed
\* by "on" exactly when the LED pin is low once the toggle made for this
\* response is done, "off" otherwise, and a newline; the socket is closed
\* right after it.
C4_ResponseContent ==
    written # "" =>
        /\ written = (IF led = "low"
                      THEN "HTTP/1.1 200 OK\r\n\r\nLED is currently: on\n"
                      ELSE "HTTP/1.1 200 OK\r\n\r\nLED is currently: off\n")
        /\ ops = <<"poll", "log_send", "toggle", "write", "log_close", "close">>
        /\ server.state \in {"FinWait1", "LastAck"}

\* a response reporting "off" was written
C4_Witness ==
    /\ written = "HTTP/1.1 200 OK\r\n\r\nLED is currently: off\n"
    /\ led = "high"
    /\ pc = "loop"

\* C5: bounded transmit.  A transmit request made while no token is
\* outstanding is granted when size <= 1024 and fails with an error, not a
\* panic, when size > 1024; the failing request leaves the packet buffer,
\* the token state and the sockets as they were.
C5_BoundedTransmit ==
    /\ [](adLast.op = "transmit" /\ ~adLast.held =>
            /\ adLast.size <= 1024 => (adLast.result = "tx_token" /\ tokens = <<"tx">>)
            /\ adLast.size > 1024 =>
                 /\ adLast.result = "error"
                 /\ tokens = <<>>
                 /\ pc = "match" /\ pollResult = "err")
    /\ [][(adLast'.op = "transmit" /\ adLast'.size > 1024 /\ ~adLast'.held
           /\ pc = "in_poll" /\ pc' # "in_poll")
            => (buf' = buf /\ tokens' = tokens
                /\ outPending' = outPending /\ sockets' = sockets)]_vars

\* an oversize request has just failed and the poll returned the error
C5_Witness ==
    /\ adLast.op = "transmit" /\ adLast.size = 1025 /\ ~adLast.held
    /\ adLast.result = "error"
    /\ pollResult = "err"

\* C6: idempotent listen.  The listen transition of the service leaves a
\* listening socket as it is, without error, and applying it twice gives
\* what applying it once gives; an iteration that services a listening
\* socket changes nothing of the socket set or the LED.
C6_IdempotentListen ==
    /\ [](pc \in LoopPcs =>
            LET once  == ListenTransition(server)
                twice == ListenTransition(once.sock)
            IN  /\ ~once.panic /\ ~twice.panic
                /\ twice.sock = once.sock
                /\ twice.ops = <<>>
                /\ server.state = "Listen" => (once.sock = server /\ once.ops = <<>>))
    /\ [][(pc = "match" /\ pc' # "match" /\ pollResult = "ok_true"
           /\ server.state = "Listen")
            => (sockets' = sockets /\ led' = led /\ pc' = "loop")]_vars

\* the service has just run on a socket that was already listening
C6_Witness ==
    /\ pc = "loop" /\ pollResult = "ok_true" /\ ops = <<"poll">>
    /\ server.state = "Listen"

C9_ReceiveOutcomes ==
    (adLast.op = "receive" /\ ~adLast.held) =>
        /\ (adLast.result = "error") <=> adLast.failed
        /\ adLast.failed => (pc = "match" /\ pollResult = "err" /\ tokens = <<>>)
        /\ (~adLast.failed /\ ~adLast.pending) => (adLast.result = "empty" /\ tokens = <<>>)
        /\ (~adLast.failed /\ adLast.pending) =>
              /\ adLast.result = "rx_token"
              /\ tokens = <<"rx">>
              /\ buf = adLast.frame
              /\ buf \in FrameKinds

\* the transport failed while a frame was pending and poll returned the error
C9_Witness ==
    /\ adLast.op = "receive" /\ adLast.failed /\ adLast.pending
    /\ adLast.result = "error"
    /\ pollResult = "err"

\* C3: error resilience.  The loop never halts: main panics only when the
\* controller initialization failed; a failed poll costs one diagnostic line
\* and nothing else; and once in the loop (which is never left) the program
\* is again and again inside poll and again and again back from it, whatever
\* polls failed before.
C3_ErrorResilience ==
    /\ [](pc = "panicked" => encInit = "failed")
    /\ [][(pc = "match" /\ pollResult = "err" /\ pc' # pc)
            => (/\ pc' = "loop"
                /\ ops' = Append(ops, "log_error")
                /\ sockets' = sockets /\ led' = led /\ buf' = buf
                /\ outPending' = outPending /\ tokens' = tokens)]_vars
    /\ []<>(pc \in LoopPcs => pc = "in_poll")
    /\ []<>(pc \in LoopPcs => pc = "match")

\* the iteration after a failed one polled successfully and answered a
\* connection
C3_Witness ==
    /\ prevFailed
    /\ pc = "loop"
    /\ pollResult = "ok_true"
    /\ written # ""

\* C8: UDP echo.  Every UDP datagram the stack has processed is eventually
\* answered by a UDP datagram handed to the controller.
C8_UdpEcho ==
    (adLast.op = "consume" /\ adLast.frame = "udp" /\ adLast.result = "processed")
        ~> (adLast.op = "flush" /\ adLast.frame = "udp" /\ adLast.result = "sent")

(* ------------------------- Closed -> Listening ------------------------ *)
\* C11 (as stated): every iteration whose poll returned without error and
\* in which the socket is not open ends with the socket listening, whether
\* or not the poll reported a readiness change.
C11_ListenEveryIteration ==
    [][(pc = "match" /\ pc' = "loop" /\ pollResult \in {"ok_true", "ok_false"}
        /\ ~is_open(server))
          => sockets'[server_handle].state = "Listen"]_vars

\* C11 (amended): an iteration whose poll returned Ok(true) and that finds
\* the socket not open calls listen(80) and nothing else, so the socket is
\* listening on port 80 when the next poll begins; an iteration whose poll
\* returned Ok(false) or an error leaves the socket as it is, and the socket
\* stays Closed from start-up until the first listen.
C11_ListenOnReadiness ==
    /\ [][(pc = "match" /\ pc' # pc /\ pollResult = "ok_true" /\ ~is_open(server))
            => (/\ pc' = "loop"
                /\ sockets'[server_handle] =
                       [state |-> "Listen", txLen |-> 0, port |-> ServerPort]
                /\ ops' = <<"poll", "listen">>)]_vars
    /\ [][(pc = "match" /\ pc' # pc /\ pollResult # "ok_true")
            => sockets' = sockets]_vars
    /\ []((pc \in LoopPcs /\ server.port = 0) => server = NewSocket)

\* after a response and the teardown, an iteration found the socket not open
\* and put it back into Listen
C11_Witness ==
    /\ pc = "loop" /\ pollResult = "ok_true"
    /\ ops = <<"poll", "listen">>
    /\ stage = "relistened"
    /\ server = [state |-> "Listen", txLen |-> 0, port |-> ServerPort]

(* ---------------------------- time model ------------------------------ *)
\* C12: time model.  From one iface.poll to the next the timestamp handed
\* to the stack never decreases, and it is later than the previous one
\* whenever the cycle counter has advanced in between.
C12_TimeModel ==
    [][(pc = "loop" /\ pc' = "in_poll" /\ pollResult # "none")
          => (now' >= now /\ (cyccnt' > cyccnt => now' > now))]_vars

(* --------------------------- poll ordering ---------------------------- *)
\* how many times x occurs in seq
Count(seq, x) == Cardinality({i \in 1..Len(seq) : seq[i] = x})

\* C13: poll ordering.  What an iteration does starts with its one call of
\* iface.poll, and holds at most one listen, one payload write, one close
\* and one LED toggle; from the top of the loop the only step is the call
\* of poll; and the service acts (an operation logged, the LED changed, a
\* payload written) only once that poll has returned.
C13_PollOrdering ==
    /\ [](ops # <<>> =>
            /\ Head(ops) = "poll"
            /\ Count(ops, "poll") = 1
            /\ Count(ops, "listen") <= 1
            /\ Count(ops, "write") <= 1
            /\ Count(ops, "close") <= 1
            /\ Count(ops, "toggle") <= 1)
    /\ [][(pc = "loop") => (pc' = "in_poll" /\ ops' = <<"poll">>
                            /\ sockets' = sockets /\ led' = led)]_vars
    /\ [][(pc \in LoopPcs /\ pc # "loop"
           /\ (led' # led \/ ops' # ops \/ nPayloads' # nPayloads))
            => (pc = "match" /\ pollResult # "none" /\ ops = <<"poll">>)]_vars

\* an iteration polled, then wrote one payload and closed, for the second time
C13_Witness ==
    /\ pc = "loop" /\ nPayloads = 2
    /\ ops = <<"poll", "log_send", "toggle", "write", "log_close", "close">>

(* ---------------------------- no truncation --------------------------- *)
\* C14 (as stated): a payload written is at most 40 bytes long and is in the
\* socket's transmit buffer in full.
C14_PayloadAtMost40 ==
    written # "" => (Len(written) <= 40 /\ server.txLen = Len(written))

\* C14 (amended): a payload written is 40 bytes long with "on" and 41 with
\* "off"; the step that writes it finds at least that much free space in the
\* 2048-byte transmit buffer and enqueues all of it, so the write never
\* fails and its unwrap never panics.
C14_NoTruncation ==
    /\ [](written # "" =>
            /\ Len(written) = (IF led = "low" THEN 40 ELSE 41)
            /\ Len(written) <= TxBufCapacity
            /\ server.txLen = Len(written))
    /\ [][(nToggles' # nToggles) =>
            (/\ written' \in {Payload("on"), Payload("off")}
             /\ TxBufCapacity - server.txLen >= Len(written')
             /\ sockets'[server_handle].txLen = server.txLen + Len(written')
             /\ pc' = "loop")]_vars
    /\ [](pc = "panicked" => ops = <<>>)

\* the longer payload, 41 bytes, is in the transmit buffer in full
C14_Witness ==
    /\ written = Payload("off")
    /\ Len(written) = 41
    /\ server.txLen = 41
    /\ pc = "loop"

(* -------------------------- static socket set ------------------------- *)
\* the handles in use
Occupied(set) == {i \in DOMAIN set : set[i] # NoSocket}

\* C15: static socket set.  In the loop the set is a table of two slots that
\* holds exactly one socket, the TCP server socket, under the handle issued
\* at registration; no step of the loop adds or removes a socket or changes
\* the size of the table.
C15_StaticSocketSet ==
    /\ [](pc \in LoopPcs =>
            /\ Len(sockets) = 2
            /\ Occupied(sockets) = {server_handle}
            /\ Cardinality(Occupied(sockets)) = 1
            /\ server.state \in TcpStates)
    /\ [][(pc \in LoopPcs) =>
            (/\ Occupied(sockets') = Occupied(sockets)
             /\ Len(sockets') = Len(sockets)
             /\ \A i \in DOMAIN sockets : i # server_handle => sockets'[i] = sockets[i])]_vars

\* two connections answered and the socket listening again: the set still
\* holds the one socket under the same handle
C15_Witness ==
    /\ pc = "loop" /\ nPayloads = 2
    /\ server.state = "Listen"
    /\ sockets[2] = NoSocket

(* -------------------------- listen never fails ------------------------ *)
\* C16: listen never fails.  Every step in which the service calls listen
\* finds the socket not open (Closed or TimeWait), the call on port 80
\* succeeds and leaves the socket listening on port 80, and main goes on to
\* the next iteration; main never panics after a listen, and the socket's
\* local port is 80 from the first listen on.
C16_ListenNeverFails ==
    /\ [][(Count(ops', "listen") > Count(ops, "listen")) =>
            (/\ pc = "match"
             /\ ~is_open(server)
             /\ server.state \in {"Closed", "TimeWait"}
             /\ listen(server, 80).ok
             /\ sockets'[server_handle].state = "Listen"
             /\ sockets'[server_handle].port = 80
             /\ pc' = "loop")]_vars
    /\ [](pc = "panicked" => Count(ops, "listen") = 0)
    /\ [](pc \in LoopPcs =>
            /\ server.port \in {0, 80}
            /\ server.state = "Listen" => server.port = 80
            /\ server.port = 0 => server.state = "Closed")

\* the first listen, on the socket still Closed from start-up, has succeeded
C16_Witness ==
    /\ pc = "loop" /\ ops = <<"poll", "listen">>
    /\ nPayloads = 0 /\ stage = "none"
    /\ server.state = "Listen" /\ server.port = 80

(* ---------------- idle and failed iterations change nothing ----------- *)
\* C17: frame condition of idle and failed iterations.  The step that ends
\* an iteration whose poll returned an error or Ok(false) leaves the socket
\* set, the LED, the packet buffer and what the stack still has to send as
\* poll left them, and writes no payload; after Ok(false) the iteration has
\* done nothing but poll, after an error nothing but poll and one
\* diagnostic line.
C17_IdleFrame ==
    /\ [][(pc = "match" /\ pc' # pc /\ pollResult \in {"err", "ok_false"}) =>
            (/\ pc' = "loop"
             /\ sockets' = sockets
             /\ led' = led
             /\ nPayloads' = nPayloads /\ nToggles' = nToggles
             /\ written' = "" /\ stage' = stage
             /\ outPending' = outPending /\ tokens' = tokens /\ buf' = buf
             /\ ops' = (IF pollResult = "err" THEN <<"poll", "log_error">>
                                              ELSE <<"poll">>))]_vars
    /\ []((pc = "loop" /\ pollResult = "err") => Count(ops, "log_error") = 1)
    /\ []((pc = "loop" /\ pollResult = "ok_false") => ops = <<"poll">>)

\* an iteration whose poll returned Ok(false) has ended without service
\* although the socket could send
C17_Witness ==
    /\ pc = "loop" /\ pollResult = "ok_false"
    /\ ops = <<"poll">>
    /\ can_send(server)

(* ------------------------- service availability ----------------------- *)
\* the response is complete and the teardown is over: the socket the
\* responder closed has reached TimeWait or Closed
TornDown == stage = "closed" /\ ~is_open(server)

\* C18 (as stated): once a response is complete and the connection torn
\* down, the socket eventually listens again, at least while polls keep
\* returning without error.
C18_EventuallyListening ==
    ([]<>(pc = "match" /\ pollResult \in {"ok_true", "ok_false"}))
        => (TornDown ~> (server.state = "Listen"))

\* C18 (amended): once a response is complete and the connection torn down,
\* the socket stays as it is until an iteration whose poll returns Ok(true),
\* and that iteration puts it back into Listen; so the socket eventually
\* listens again provided polls keep returning Ok(true).
C18_Availability ==
    /\ [][(TornDown /\ pc' # pc) =>
            IF pc = "match" /\ pollResult = "ok_true"
            THEN sockets'[server_handle].state = "Listen" /\ stage' = "relistened"
            ELSE sockets' = sockets /\ stage' = stage]_vars
    /\ ([]<>(pc = "match" /\ pollResult = "ok_true"))
           => (TornDown ~> (server.state = "Listen"))

\* the teardown ended in an iteration whose poll failed, and a later
\* iteration whose poll returned Ok(true) made the socket listen again
C18_Witness ==
    /\ pc = "loop" /\ prevFailed /\ pollResult = "ok_true"
    /\ stage = "relistened"
    /\ ops = <<"poll", "listen">>
    /\ server.state = "Listen"

====
